---- MODULE Spec2Model ----
(***************************************************************************)
(* A model of rpmconf (src/rpmconf/rpmconf.py): the package walk with its  *)
(* per-pair resolution loop (_handle_package, _handle_rpmnew,              *)
(* _handle_rpmsave, _merge_conf_files), the file primitives (_copy,        *)
(* _remove, _overwrite) and the orphan scanner (_clean_orphan).            *)
(*                                                                         *)
(* The filesystem is a function from paths to files.  A path is a pair     *)
(* <<b, e>>: b numbers a base configuration file and e is "conf" for the   *)
(* base itself, or the extension appended to it ("rpmnew", "rpmsave",      *)
(* "rpmorig", and "orig" for the backup kdiff3 leaves behind).  A file is  *)
(* a record: its kind (regular file, symbolic link, or none when the path  *)
(* does not exist), its content as read through the path (data) and its   *)
(* os.stat signature (sig: size and modification time).                    *)
(***************************************************************************)
EXTENDS Integers, Sequences, FiniteSets, TLC

\* ---- bounds of the model ----
MaxConf == 2        \* base files on the system
MaxVariants == 2    \* tagged variant files that exist when the run starts
MaxPrompts == 2     \* non-terminal answers given at the prompt of one pair

VARIABLES
    debug,      \* self.debug: dry run
    diff,       \* self.diff: non-interactive diff mode
    clean,      \* self.clean: run the orphan scanner after the walk
    frontend,   \* self.frontend ("None" when not given)
    mergeEnv,   \* whether the environment variable MERGE is set
    tty,        \* whether standard input is a terminal
    owner,      \* the package database: base -> owning package or "none"
    fs,         \* the filesystem
    fs0,        \* the filesystem when the run started
    pc,         \* where the run is
    ci,         \* index in the list of config files of the one being handled
    si,         \* index in Suffixes of the variant being handled
    option,     \* the loop variable of _handle_rpmnew / _handle_rpmsave
    prompts,    \* prompts printed so far by the resolution under way or just ended
    shown,      \* diffs rendered by the step taken last: <<from path, to path>>
    exc,        \* the exception that ended the run: its type and where it rose
    act,        \* the step taken last
    inp,        \* what standard input held for the read of the step taken last
    tool,       \* what the merge tool called by the step taken last did
    pre,        \* the filesystem before the step taken last
    pair,       \* <<base, suffix index>> of the pair whose resolution began last
    start,      \* the filesystem when the resolution under way or just ended began
    merged,     \* whether that resolution has called the merge tool
    files_merge,    \* _clean_orphan: entries [package, base, path]
    files_delete,   \* _clean_orphan: paths
    answer      \* _clean_orphan: the answer to the batch confirmation

vars == <<debug, diff, clean, frontend, mergeEnv, tty, owner, fs, fs0, pc, ci, si,
          option, prompts, shown, exc, act, inp, tool, pre, pair, start, merged,
          files_merge, files_delete, answer>>

Bases == 1..MaxConf

\* the three suffixes _handle_package looks at, in its order
Suffixes == <<"rpmnew", "rpmsave", "rpmorig">>

Exts == {"conf", "rpmnew", "rpmsave", "rpmorig", "orig"}

Paths == Bases \X Exts

NoFile == [kind |-> "none", data |-> "none", sig |-> 0]

Reg(d, s) == [kind |-> "reg", data |-> d, sig |-> s]

Link(d, s) == [kind |-> "link", data |-> d, sig |-> s]

\* what the base file holds when the run starts: present, or deleted by the
\* administrator
BaseFiles == {NoFile, Reg("a", 1)}

\* what a variant holds when the run starts, by suffix.  Against the base:
\* the same bytes with another modification time, or with the same one;
\* other bytes with the same size and modification time; other bytes; a
\* symbolic link to other bytes
VariantFiles(s) ==
    IF s = 1 THEN {Reg("a", 2), Reg("b", 1), Reg("b", 2)}
    ELSE IF s = 2 THEN {Reg("a", 1), Reg("b", 2), Link("b", 2)}
    ELSE {Reg("b", 2)}

\* what a merge tool leaves in the base when the administrator saves
MergedFile == Reg("m", 3)

VisualDiff == {"vimdiff", "gvimdiff", "meld"}

Frontends == VisualDiff \cup {"diffuse", "kdiff3", "env", "None"}

NoExc == [type |-> "none", at |-> "none"]

Raised(t, a) == [type |-> t, at |-> a]

\* standard input is at its end
Eof == "<EOF>"

\* no line was read
NoInput == "<none>"

\* the lines the administrator types at the prompt of a pair: every choice
\* in one case or the other, the empty line and a line that is no choice
Inputs == {"Y", "i", "N", "o", "S", "d", "M", "z", "", "X"}

\* the lines the administrator types at the question of the orphan scanner
Answers == {"y", "N", "n", "", "X"}

\* str.upper() on those lines
upper(x) ==
    CASE x = "i" -> "I" [] x = "o" -> "O" [] x = "d" -> "D" [] x = "z" -> "Z"
      [] x = "y" -> "Y" [] x = "n" -> "N" [] OTHER -> x

conf_path(b) == <<b, "conf">>

other_path(b, s) == <<b, Suffixes[s]>>

orig_path(b) == <<b, "orig">>

\* ---- the filesystem primitives ----

\* os.access(path, os.F_OK)
access(f, p) == f[p].kind # "none"

\* os.path.lexists(path)
lexists(f, p) == f[p].kind # "none"

\* os.path.islink(path)
islink(f, p) == f[p].kind = "link"

\* filecmp.cmp that trusts the stat signatures alone
filecmp_cmp_stat_only(f, p1, p2) ==
    IF f[p1].kind = "none" \/ f[p2].kind = "none" THEN "FileNotFoundError"
    ELSE IF f[p1].sig = f[p2].sig THEN "True"
    ELSE "False"

\* filecmp.cmp(f1, f2) with its default shallow=True: os.stat of both files
\* (FileNotFoundError when one is missing), True at once when the two stat
\* signatures are equal, a comparison of the bytes otherwise
filecmp_cmp(f, p1, p2) ==
    IF f[p1].kind = "none" \/ f[p2].kind = "none" THEN "FileNotFoundError"
    ELSE IF f[p1].sig = f[p2].sig THEN "True"
    ELSE IF f[p1].data = f[p2].data THEN "True"
    ELSE "False"

\* the Variant Locator: the suffixes whose file exists for base b
Locate(f, b) == {s \in 1..Len(Suffixes) : access(f, other_path(b, s))}

\* os.unlink(path)
unlink(f, p) ==
    IF f[p].kind = "none" THEN [fs |-> f, err |-> "FileNotFoundError"]
    ELSE [fs |-> [f EXCEPT ![p] = NoFile], err |-> "ok"]

\* RpmConf._remove(conf_file): the result is the filesystem and the exception
remove(f, p) ==
    IF debug THEN [fs |-> f, err |-> "ok"]
    ELSE unlink(f, p)

\* RpmConf._copy(src, dst): a symbolic link is recreated at dst (replacing
\* what was there), a regular file is copied by shutil.copy2, bytes and
\* stat both, through dst when dst is itself a link
copy(f, src, dst) ==
    IF islink(f, src) THEN [fs |-> [f EXCEPT ![dst] = f[src]], err |-> "ok"]
    ELSE IF f[src].kind = "none" THEN [fs |-> f, err |-> "FileNotFoundError"]
    ELSE [fs |-> [f EXCEPT ![dst] =
                     [kind |-> IF islink(f, dst) THEN "link" ELSE "reg",
                      data |-> f[src].data, sig |-> f[src].sig]],
          err |-> "ok"]

\* _overwrite that copies and leaves src in place
overwrite_keeps_src(f, src, dst) ==
    IF debug THEN [fs |-> f, err |-> "ok"]
    ELSE copy(f, src, dst)

\* RpmConf._overwrite(src, dst)
overwrite(f, src, dst) ==
    IF debug THEN [fs |-> f, err |-> "ok"]
    ELSE LET c == copy(f, src, dst)
         IN  IF c.err # "ok" THEN c ELSE remove(c.fs, src)

\* ---- the package database ----

\* RpmConf.get_list_of_config over every package of self.packages: the
\* config files the walk visits, in order
RECURSIVE ConfigsFrom(_)
ConfigsFrom(b) ==
    IF b > MaxConf THEN <<>>
    ELSE IF owner[b] # "none" THEN <<b>> \o ConfigsFrom(b + 1)
    ELSE ConfigsFrom(b + 1)

get_list_of_config == ConfigsFrom(1)

\* what the merge tool may do when it is called: whether the executable is
\* found, its exit status, whether a merged base was saved, whether the
\* replaced base was kept as a backup (kdiff3 only)
ToolRuns ==
    {t \in [found : BOOLEAN, rc : {0, 1}, save : BOOLEAN, backup : BOOLEAN] :
        /\ ~t.found => (t.rc = 0 /\ ~t.save)
        /\ t.backup => (t.save /\ frontend = "kdiff3")}

NoToolRun == [found |-> FALSE, rc |-> 0, save |-> FALSE, backup |-> FALSE]

\* ---- the state after construction ----

VariantSlots == Bases \X (1..Len(Suffixes))

InitialVariants == {v \in SUBSET VariantSlots : Cardinality(v) <= MaxVariants}

\* the run configurations told apart: the merge frontend and MERGE are read
\* in interactive mode only, and MERGE only without a named tool; dry run is
\* read by the removals only, standard input by the prompts only.  The runs
\* that go on to scan for orphans are taken without a merge tool
Configs ==
    {c \in [debug : BOOLEAN, diff : BOOLEAN, clean : BOOLEAN,
            frontend : Frontends, mergeEnv : BOOLEAN, tty : BOOLEAN] :
        /\ (c.diff /\ ~c.clean) => c.tty
        /\ c.mergeEnv => c.frontend \in {"env", "None"}
        /\ c.diff => c.frontend = "None" /\ ~c.mergeEnv
        /\ (c.diff /\ ~c.clean) => ~c.debug
        /\ c.clean => c.frontend = "None" /\ ~c.mergeEnv}

\* the package databases told apart: the bases no package owns are never
\* read, so they are the last ones and are absent
Owners == {o \in [Bases -> {"pkg", "none"}] :
             \A b \in Bases : (b > 1 /\ o[b] # "none") => o[b - 1] # "none"}

Init ==
    /\ \E c \in Configs :
         /\ debug = c.debug
         /\ diff = c.diff
         /\ clean = c.clean
         /\ frontend = c.frontend
         /\ mergeEnv = c.mergeEnv
         /\ tty = c.tty
    /\ owner \in Owners
    /\ \E bf \in [Bases -> BaseFiles], v \in InitialVariants :
         \E vf \in {g \in [v -> UNION {VariantFiles(s) : s \in 1..Len(Suffixes)}] :
                       \A x \in v : g[x] \in VariantFiles(x[2])} :
            /\ \A b \in Bases : owner[b] = "none" => bf[b] = NoFile
            /\ fs = [p \in Paths |->
                    IF p[2] = "conf" THEN bf[p[1]]
                    ELSE IF \E s \in 1..Len(Suffixes) :
                              p[2] = Suffixes[s] /\ <<p[1], s>> \in v
                         THEN vf[<<p[1], CHOOSE s \in 1..Len(Suffixes) : p[2] = Suffixes[s]>>]
                         ELSE NoFile]
    /\ fs0 = fs
    /\ pc = "walk"
    /\ ci = 1
    /\ si = 1
    /\ option = ""
    /\ prompts = 0
    /\ shown = {}
    /\ exc = NoExc
    /\ act = "init"
    /\ inp = NoInput
    /\ tool = NoToolRun
    /\ pre = fs
    /\ pair = <<0, 0>>
    /\ start = fs
    /\ merged = FALSE
    /\ files_merge = <<>>
    /\ files_delete = <<>>
    /\ answer = "None"

\* ---- the merge tool dispatcher ----

\* subprocess.check_call of a merge tool on (conf_file, other_file): what the
\* tool leaves behind.  save: the administrator saved a merged base;
\* backup: the tool kept the replaced base as conf_file.orig (kdiff3)
tool_run(f, b, save, backup) ==
    IF ~save THEN f
    ELSE [f EXCEPT ![conf_path(b)] = MergedFile,
                   ![orig_path(b)] = IF backup THEN f[conf_path(b)] ELSE @]

\* _merge_conf_files that ends with sys.exit(4) when no frontend is selected
merge_conf_files_exit4_only(f, b, s, found, rc, save, backup) ==
    LET ran == tool_run(f, b, save, FALSE)
        notfound == [fs |-> f, end |-> "exit4", why |-> "tool not found"]
        checked(g) == IF rc # 0
                      THEN [fs |-> g, end |-> "CalledProcessError", why |-> "exit status"]
                      ELSE [fs |-> g, end |-> "ok", why |-> "none"]
    IN
    IF frontend \in VisualDiff THEN
        IF ~found THEN notfound ELSE checked(ran)
    ELSE IF frontend = "diffuse" THEN
        IF ~found THEN notfound
        ELSE [fs |-> ran, end |-> "ok", why |-> "none"]
    ELSE IF frontend = "kdiff3" THEN
        IF ~found THEN notfound
        ELSE LET k == tool_run(f, b, save, backup)
             IN  IF rc # 0 THEN [fs |-> k, end |-> "ok", why |-> "none"]
                 ELSE LET r1 == remove(k, other_path(b, s))
                      IN  IF r1.err # "ok"
                          THEN [fs |-> r1.fs, end |-> "exit4", why |-> "remove"]
                          ELSE LET r2 == remove(r1.fs, orig_path(b))
                               IN  IF r2.err # "ok"
                                   THEN [fs |-> r2.fs, end |-> "exit4", why |-> "remove"]
                                   ELSE [fs |-> r2.fs, end |-> "ok", why |-> "none"]
    ELSE IF frontend \in {"env", "None"} /\ mergeEnv THEN
        IF ~found THEN notfound ELSE checked(ran)
    ELSE [fs |-> f, end |-> "exit4", why |-> "no frontend"]

\* RpmConf._merge_conf_files(conf_file, other_file).  found: the executable
\* exists; rc: its exit status.  The result is the filesystem, how the call
\* ended: "ok" (it returned), "exit2", "exit4" (sys.exit) or
\* "CalledProcessError" (raised to the caller), and why it ended so
merge_conf_files(f, b, s, found, rc, save, backup) ==
    LET ran == tool_run(f, b, save, FALSE)
        notfound == [fs |-> f, end |-> "exit4", why |-> "tool not found"]
        checked(g) == IF rc # 0
                      THEN [fs |-> g, end |-> "CalledProcessError", why |-> "exit status"]
                      ELSE [fs |-> g, end |-> "ok", why |-> "none"]
    IN
    IF frontend \in VisualDiff THEN
        IF ~found THEN notfound ELSE checked(ran)
    ELSE IF frontend = "diffuse" THEN
        IF ~found THEN notfound
        ELSE [fs |-> ran, end |-> "ok", why |-> "none"]
    ELSE IF frontend = "kdiff3" THEN
        IF ~found THEN notfound
        ELSE LET k == tool_run(f, b, save, backup)
             IN  IF rc # 0 THEN [fs |-> k, end |-> "ok", why |-> "none"]
                 ELSE LET r1 == remove(k, other_path(b, s))
                      IN  IF r1.err # "ok"
                          THEN [fs |-> r1.fs, end |-> "exit4", why |-> "remove"]
                          ELSE LET r2 == remove(r1.fs, orig_path(b))
                               IN  IF r2.err # "ok"
                                   THEN [fs |-> r2.fs, end |-> "exit4", why |-> "remove"]
                                   ELSE [fs |-> r2.fs, end |-> "ok", why |-> "none"]
    ELSE IF frontend \in {"env", "None"} /\ mergeEnv THEN
        IF ~found THEN notfound ELSE checked(ran)
    ELSE [fs |-> f, end |-> "exit2", why |-> "no frontend"]

\* ---- the package walk ----

conf_file == get_list_of_config[ci]

\* a walk that leaves the config file after the first variant it resolved
advance_to_next_config ==
    /\ pc' = "walk"
    /\ si' = 1
    /\ ci' = ci + 1

\* the walk moves on to the next suffix of the config file, or to the next
\* config file
advance ==
    /\ pc' = "walk"
    /\ IF si < Len(Suffixes) THEN si' = si + 1 /\ ci' = ci
                             ELSE si' = 1 /\ ci' = ci + 1

\* the locals of a resolution are gone once the walk goes on
forget ==
    /\ option' = ""
    /\ prompts' = 0
    /\ start' = fs
    /\ merged' = FALSE

crash(type, at) ==
    /\ pc' = "crash"
    /\ exc' = Raised(type, at)
    /\ UNCHANGED <<ci, si>>

\* the first lines of RpmConf._handle_rpmnew and RpmConf._handle_rpmsave:
\* identical files are settled without a prompt
handle_start(b, s) ==
    LET same == filecmp_cmp(fs, conf_path(b), other_path(b, s))
    IN  /\ pair' = <<b, s>>
        /\ forget
        /\ IF same = "FileNotFoundError"
           THEN crash("FileNotFoundError", "filecmp") /\ fs' = fs
           ELSE IF same = "True"
           THEN LET r == remove(fs, other_path(b, s))
                IN  /\ fs' = r.fs
                    /\ IF r.err # "ok" THEN crash(r.err, "remove")
                                      ELSE advance /\ exc' = exc
           ELSE /\ pc' = "prompt"
                /\ UNCHANGED <<fs, ci, si, exc>>

\* RpmConf._handle_rpmnew(conf_file, other_file) up to its loop
handle_rpmnew(b) == act' = "handle_rpmnew" /\ handle_start(b, 1)

\* RpmConf._handle_rpmsave(conf_file, other_file) up to its loop
handle_rpmsave(b, s) == act' = "handle_rpmsave" /\ handle_start(b, s)

\* RpmConf._handle_package, interactive mode: one os.access test and the
\* call it guards
handle_package ==
    /\ pc = "walk"
    /\ ~diff
    /\ ci <= Len(get_list_of_config)
    /\ pre' = fs
    /\ IF access(fs, other_path(conf_file, si))
       THEN IF si = 1 THEN handle_rpmnew(conf_file)
                      ELSE handle_rpmsave(conf_file, si)
       ELSE /\ act' = "handle_package"
            /\ advance
            /\ forget
            /\ UNCHANGED <<fs, exc, pair>>
    /\ inp' = NoInput
    /\ tool' = NoToolRun
    /\ shown' = {}
    /\ UNCHANGED <<debug, diff, clean, frontend, mergeEnv, tty, owner, fs0,
                   files_merge, files_delete, answer>>

\* ---- the resolution loop ----

Terminal == {"Y", "I", "N", "O", "S"}

\* _handle_rpmnew with the default of _handle_rpmsave
rpmnew_option_default_y(in) ==
    LET o == IF in = Eof THEN "S" ELSE upper(in)
    IN  IF o = "" THEN "Y" ELSE o

\* RpmConf.flush_input followed by the loop's treatment of what was read, in
\* _handle_rpmnew: end of input is "S", an empty line is "N"
rpmnew_option(in) ==
    LET o == IF in = Eof THEN "S" ELSE upper(in)
    IN  IF o = "" THEN "N" ELSE o

\* the same in _handle_rpmsave: an empty line is "Y"
rpmsave_option(in) ==
    LET o == IF in = Eof THEN "S" ELSE upper(in)
    IN  IF o = "" THEN "Y" ELSE o

\* _handle_rpmnew that removes the variant on S as on N
rpmnew_final_skip_removes(f, b, s, o) ==
    IF o \in {"N", "O", "S"} THEN remove(f, other_path(b, s))
    ELSE IF o \in {"Y", "I"} THEN overwrite(f, other_path(b, s), conf_path(b))
    ELSE [fs |-> f, err |-> "ok"]

\* the two statements after the loop of _handle_rpmnew
rpmnew_final(f, b, s, o) ==
    IF o \in {"N", "O"} THEN remove(f, other_path(b, s))
    ELSE IF o \in {"Y", "I"} THEN overwrite(f, other_path(b, s), conf_path(b))
    ELSE [fs |-> f, err |-> "ok"]

\* _handle_rpmsave with the polarity of _handle_rpmnew
rpmsave_final_as_rpmnew(f, b, s, o) ==
    IF o \in {"N", "O"} THEN remove(f, other_path(b, s))
    ELSE IF o \in {"Y", "I"} THEN overwrite(f, other_path(b, s), conf_path(b))
    ELSE [fs |-> f, err |-> "ok"]

\* the two statements after the loop of _handle_rpmsave
rpmsave_final(f, b, s, o) ==
    IF o \in {"Y", "I"} THEN remove(f, other_path(b, s))
    ELSE IF o \in {"N", "O"} THEN overwrite(f, other_path(b, s), conf_path(b))
    ELSE [fs |-> f, err |-> "ok"]

\* RpmConf.flush_input(question) when standard input holds `in`: tcflush
\* raises termios.error when standard input is not a terminal, input()
\* raises EOFError at the end of the input, the line is returned otherwise
flush_input(in) ==
    IF ~tty THEN "termios.error"
    ELSE IF in = Eof THEN "EOFError"
    ELSE in

\* _ls_conf_file that lists what exists and does not raise for the variant
ls_conf_file_base_only(f, b, s) == lexists(f, conf_path(b))

\* RpmConf._ls_conf_file: check_output raises CalledProcessError when ls
\* cannot list one of the two files
ls_conf_file(f, b, s) == lexists(f, conf_path(b)) /\ lexists(f, other_path(b, s))

\* RpmConf.show_diff(file1, file2): the diff sent to the pager
show_diff(file1, file2) == shown' = {<<file1, file2>>}

\* one iteration of the while loop of _handle_rpmnew / _handle_rpmsave for
\* the line `in`, with the statements after the loop when it ends.  o is the
\* option the line stands for, d the diff choice D shows, fin the result of
\* the statements after the loop, t what the merge tool does when M calls it
\* and m the result of _merge_conf_files then
loop_iteration(b, s, in, o, d, fin, t, m) ==
    /\ act' = "prompt"
    /\ pre' = fs
    /\ IF ~ls_conf_file(fs, b, s)
       THEN /\ crash("CalledProcessError", "ls")
            /\ inp' = NoInput
            /\ tool' = NoToolRun
            /\ shown' = {}
            /\ UNCHANGED <<fs, option, prompts, merged>>
       ELSE IF flush_input(in) = "termios.error"
       THEN /\ crash("termios.error", "tcflush")
            /\ prompts' = prompts + 1
            /\ inp' = in
            /\ tool' = NoToolRun
            /\ shown' = {}
            /\ UNCHANGED <<fs, option, merged>>
       ELSE /\ prompts' = prompts + 1
            /\ inp' = in
            /\ tool' = t
            /\ option' = o
            /\ merged' = (merged \/ o = "M")
            /\ (o \notin Terminal => prompts < MaxPrompts)
            /\ IF o = "D" THEN show_diff(d[1], d[2]) ELSE shown' = {}
            /\ IF o = "M"
               THEN /\ fs' = m.fs
                    /\ IF m.end = "ok" THEN UNCHANGED <<pc, ci, si, exc>>
                       ELSE IF m.end = "CalledProcessError"
                       THEN crash("CalledProcessError", "merge")
                       ELSE /\ pc' = m.end
                            /\ exc' = Raised("SystemExit", m.why)
                            /\ UNCHANGED <<ci, si>>
               ELSE IF o \in Terminal
               THEN /\ fs' = fin.fs
                    /\ IF fin.err # "ok" THEN crash(fin.err, "final")
                                        ELSE advance /\ exc' = exc
               ELSE UNCHANGED <<fs, pc, ci, si, exc>>
    /\ UNCHANGED <<debug, diff, clean, frontend, mergeEnv, tty, owner, fs0, pair, start,
                   files_merge, files_delete, answer>>

\* the loop of RpmConf._handle_rpmnew
handle_rpmnew_loop ==
    /\ pc = "prompt"
    /\ pair[2] = 1
    /\ \E in \in Inputs \cup {Eof} :
         \E t \in IF rpmnew_option(in) = "M" THEN ToolRuns ELSE {NoToolRun} :
         LET b == pair[1]
             s == pair[2]
             o == rpmnew_option(in)
         IN  loop_iteration(b, s, in, o,
                 <<conf_path(b), other_path(b, s)>>,
                 rpmnew_final(fs, b, s, o), t,
                 merge_conf_files(fs, b, s, t.found, t.rc, t.save, t.backup))

\* the loop of RpmConf._handle_rpmsave
handle_rpmsave_loop ==
    /\ pc = "prompt"
    /\ pair[2] # 1
    /\ \E in \in Inputs \cup {Eof} :
         \E t \in IF rpmsave_option(in) = "M" THEN ToolRuns ELSE {NoToolRun} :
         LET b == pair[1]
             s == pair[2]
             o == rpmsave_option(in)
         IN  loop_iteration(b, s, in, o,
                 <<other_path(b, s), conf_path(b)>>,
                 rpmsave_final(fs, b, s, o), t,
                 merge_conf_files(fs, b, s, t.found, t.rc, t.save, t.backup))

\* RpmConf._show_cond_diff for the three suffixes of one config file, in the
\* order of _handle_package; show_diff stats both files first and raises
\* FileNotFoundError when the base is missing.  The result is the diffs
\* shown and whether show_diff raised
RECURSIVE show_cond_diffs(_, _, _)
show_cond_diffs(b, s, done) ==
    IF s > Len(Suffixes) THEN [shown |-> done, err |-> "ok"]
    ELSE IF ~lexists(fs, other_path(b, s)) THEN show_cond_diffs(b, s + 1, done)
    ELSE IF ~access(fs, conf_path(b)) THEN [shown |-> done, err |-> "FileNotFoundError"]
    ELSE show_cond_diffs(b, s + 1,
            done \cup {IF s = 1 THEN <<conf_path(b), other_path(b, s)>>
                                ELSE <<other_path(b, s), conf_path(b)>>})

\* RpmConf._handle_package, diff mode: one config file
handle_package_diff ==
    /\ pc = "walk"
    /\ diff
    /\ ci <= Len(get_list_of_config)
    /\ act' = "handle_package_diff"
    /\ pre' = fs
    /\ LET r == show_cond_diffs(conf_file, 1, {})
       IN  /\ shown' = r.shown
           /\ IF r.err # "ok" THEN crash(r.err, "show_diff")
              ELSE pc' = "walk" /\ ci' = ci + 1 /\ si' = 1 /\ exc' = exc
    /\ inp' = NoInput
    /\ tool' = NoToolRun
    /\ UNCHANGED <<debug, diff, clean, frontend, mergeEnv, tty, owner, fs, fs0,
                   option, prompts, pair, start, merged,
                   files_merge, files_delete, answer>>

\* ---- the orphan scanner ----

\* the extensions _clean_orphan looks for
OrphanExts == {"rpmnew", "rpmsave"}

\* os.walk: the files of the scanned directories, in the order met
WalkOrder == <<"conf", "orig", "rpmnew", "rpmorig", "rpmsave">>

\* _clean_orphan_file that marks every file for deletion
clean_orphan_file_deletes_owned(p) ==
    LET package_merge == owner[p[1]]
    IN  IF package_merge # "none"
        THEN <<[package |-> package_merge, base |-> conf_path(p[1]), path |-> p], p>>
        ELSE <<[package |-> "None", base |-> conf_path(p[1]), path |-> p], p>>

\* _clean_orphan_file that forgets file_delete when rpm -qf fails
clean_orphan_file_drops_unowned(p) ==
    LET package_merge == owner[p[1]]
    IN  IF package_merge # "none"
        THEN <<[package |-> package_merge, base |-> conf_path(p[1]), path |-> p], "None">>
        ELSE <<[package |-> "None", base |-> conf_path(p[1]), path |-> p], "None">>

\* RpmConf._clean_orphan_file(rpmnew_rpmsave): rpm -qf on the path without
\* its extension; (file_merge, file_delete)
clean_orphan_file(p) ==
    LET package_merge == owner[p[1]]
    IN  IF package_merge # "none"
        THEN <<[package |-> package_merge, base |-> conf_path(p[1]), path |-> p], "None">>
        ELSE <<[package |-> "None", base |-> conf_path(p[1]), path |-> p], p>>

\* the walk of RpmConf._clean_orphan from base b, file k of WalkOrder on,
\* with the two lists gathered so far
RECURSIVE walk_orphans(_, _, _, _)
walk_orphans(b, k, fm, fd) ==
    IF b > MaxConf THEN [files_merge |-> fm, files_delete |-> fd]
    ELSE IF k > Len(WalkOrder) THEN walk_orphans(b + 1, 1, fm, fd)
    ELSE LET p == <<b, WalkOrder[k]>>
             c == clean_orphan_file(p)
         IN  IF lexists(fs, p) /\ p[2] \in OrphanExts
             THEN walk_orphans(b, k + 1,
                     IF c[1].package # "None" THEN Append(fm, c[1]) ELSE fm,
                     IF c[2] # "None" THEN Append(fd, c[2]) ELSE fd)
             ELSE walk_orphans(b, k + 1, fm, fd)

\* the deletion loop of _clean_orphan over files_delete from index k on
RECURSIVE remove_all(_, _, _)
remove_all(f, fd, k) ==
    IF k > Len(fd) THEN [fs |-> f, err |-> "ok"]
    ELSE LET r == remove(f, fd[k])
         IN  IF r.err # "ok" THEN r ELSE remove_all(r.fs, fd, k + 1)

\* RpmConf.run after the package walk with self.clean: _clean_orphan up to
\* its question
clean_orphan ==
    /\ pc = "walk"
    /\ ci > Len(get_list_of_config)
    /\ clean
    /\ act' = "clean_orphan"
    /\ pre' = fs
    /\ LET w == walk_orphans(1, 1, <<>>, <<>>)
       IN  /\ files_merge' = w.files_merge
           /\ files_delete' = w.files_delete
           /\ pc' = IF w.files_delete # <<>> THEN "confirm" ELSE "done"
    /\ forget
    /\ inp' = NoInput
    /\ tool' = NoToolRun
    /\ shown' = {}
    /\ UNCHANGED <<debug, diff, clean, frontend, mergeEnv, tty, owner, fs, fs0, ci, si,
                   exc, pair, answer>>

\* the question of _clean_orphan: one line read, and the deletion on Y or
\* an empty line.  What flush_input raises is not caught
clean_orphan_answer ==
    /\ pc = "confirm"
    /\ act' = "clean_orphan_answer"
    /\ pre' = fs
    /\ tool' = NoToolRun
    /\ \E in \in Answers \cup {Eof} :
         /\ inp' = in
         /\ IF flush_input(in) = "termios.error"
            THEN /\ crash("termios.error", "tcflush")
                 /\ UNCHANGED <<fs, answer>>
            ELSE IF flush_input(in) = "EOFError"
            THEN /\ crash("EOFError", "input")
                 /\ UNCHANGED <<fs, answer>>
            ELSE /\ answer' = upper(in)
                 /\ IF answer' \notin {"Y", "N", ""}
                    THEN UNCHANGED <<fs, pc, ci, si, exc>>
                    ELSE IF answer' \in {"Y", ""}
                    THEN LET r == remove_all(fs, files_delete, 1)
                         IN  /\ fs' = r.fs
                             /\ IF r.err # "ok" THEN crash(r.err, "remove")
                                ELSE pc' = "done" /\ UNCHANGED <<ci, si, exc>>
                    ELSE pc' = "done" /\ UNCHANGED <<fs, ci, si, exc>>
    /\ UNCHANGED <<debug, diff, clean, frontend, mergeEnv, tty, owner, fs0,
                   option, prompts, shown, pair, start, merged,
                   files_merge, files_delete>>

\* RpmConf.run returns after the package walk when self.clean is not set
run_return ==
    /\ pc = "walk"
    /\ ci > Len(get_list_of_config)
    /\ ~clean
    /\ act' = "run_return"
    /\ pre' = fs
    /\ pc' = "done"
    /\ forget
    /\ inp' = NoInput
    /\ tool' = NoToolRun
    /\ shown' = {}
    /\ UNCHANGED <<debug, diff, clean, frontend, mergeEnv, tty, owner, fs, fs0, ci, si,
                   exc, pair, files_merge, files_delete, answer>>

\* the exit status of the process: sys.exit(2), sys.exit(4), 1 when an
\* exception ends the run, 0 when run() returns; -1 while it runs
ExitStatus ==
    CASE pc = "exit2" -> 2
      [] pc = "exit4" -> 4
      [] pc = "crash" -> 1
      [] pc = "done" -> 0
      [] OTHER -> -1

Next ==
    \/ handle_package
    \/ handle_rpmnew_loop
    \/ handle_rpmsave_loop
    \/ handle_package_diff
    \/ clean_orphan
    \/ clean_orphan_answer
    \/ run_return

Spec == Init /\ [][Next]_vars

\* ---- the resolution of the pairs of one config file ----

\* an interactive run over one package with one config file, without the
\* orphan scanner: the other bases are owned by no package and have no
\* variant
InitResolve ==
    /\ Init
    /\ ~diff
    /\ ~clean
    /\ \A b \in Bases : owner[b] # "none" <=> b = 1
    /\ \A b \in Bases : b # 1 => Locate(fs, b) = {}

NextResolve ==
    \/ handle_package
    \/ handle_rpmnew_loop
    \/ handle_rpmsave_loop
    \/ run_return

SpecResolve == InitResolve /\ [][NextResolve]_vars

\* ---- the runs that resolve the packages and end with the orphan scanner ----

InitScan ==
    /\ Init
    /\ clean
    /\ ~diff
    /\ \A b \in Bases : owner[b] # "none" => b = 1

NextScan ==
    \/ handle_package
    \/ handle_rpmnew_loop
    \/ handle_rpmsave_loop
    \/ clean_orphan
    \/ clean_orphan_answer

SpecScan == InitScan /\ [][NextScan]_vars

\* ---- _overwrite step by step ----

\* RpmConf._overwrite(other_file, conf_file) on the pair `pair`, one system
\* call at a time; every call that can fail either succeeds or raises
\* OSError.  pc names the call to come

\* the arguments of the call: src is the variant of the pair, dst its base
overwrite_src == other_path(pair[1], pair[2])

overwrite_dst == conf_path(pair[1])

\* what conf_file and other_file hold when _overwrite is called: the base
\* may be missing, a regular file or a symbolic link; the variant is a
\* regular file or a symbolic link
OverwriteTargets == BaseFiles \cup {Link("a", 1)}

OverwriteSources(s) == VariantFiles(s) \cup {Link("b", 2)}

\* a file opened for writing and truncated, before the bytes are written
Truncated(f, p) ==
    [kind |-> IF islink(f, p) THEN "link" ELSE "reg", data |-> "", sig |-> 0]

InitOverwrite ==
    /\ debug \in BOOLEAN
    /\ diff = FALSE
    /\ clean = FALSE
    /\ frontend = "None"
    /\ mergeEnv = FALSE
    /\ tty = TRUE
    /\ owner = [b \in Bases |-> "pkg"]
    /\ \E b \in Bases, s \in 1..Len(Suffixes) :
         \E dstf \in OverwriteTargets, srcf \in OverwriteSources(s) :
            /\ pair = <<b, s>>
            /\ fs = [p \in Paths |-> IF p = conf_path(b) THEN dstf
                                     ELSE IF p = other_path(b, s) THEN srcf
                                     ELSE NoFile]
    /\ fs0 = fs
    /\ pc = "overwrite"
    /\ ci = 1
    /\ si = 1
    /\ option = "Y"
    /\ prompts = 1
    /\ shown = {}
    /\ exc = NoExc
    /\ act = "init"
    /\ inp = NoInput
    /\ tool = NoToolRun
    /\ pre = fs
    /\ start = fs
    /\ merged = FALSE
    /\ files_merge = <<>>
    /\ files_delete = <<>>
    /\ answer = "None"

\* what a step of _overwrite leaves alone
overwrite_frame ==
    /\ pre' = fs
    /\ UNCHANGED <<debug, diff, clean, frontend, mergeEnv, tty, owner, fs0,
                   option, prompts, shown, inp, tool, pair, start, merged,
                   files_merge, files_delete, answer>>

\* a step of _overwrite that goes on to the call `to` with filesystem g
overwrite_goes(g, to) ==
    /\ fs' = g
    /\ pc' = to
    /\ UNCHANGED <<ci, si, exc>>

\* a system call of _overwrite raised: the filesystem is left as g
overwrite_raises(g, at) == fs' = g /\ crash("OSError", at)

\* _overwrite that removes src first and copies nothing
overwrite_call_removes_first ==
    /\ pc = "overwrite"
    /\ act' = "overwrite_call"
    /\ overwrite_goes(fs, "remove")
    /\ overwrite_frame

\* RpmConf._overwrite up to the first system call of _copy: dry run prints
\* and returns; _copy tests os.path.islink(src)
overwrite_call ==
    /\ pc = "overwrite"
    /\ act' = "overwrite_call"
    /\ overwrite_goes(fs, IF debug THEN "done"
                          ELSE IF islink(fs, overwrite_src) THEN "symlink"
                          ELSE "copy2_open")
    /\ overwrite_frame

\* _copy, src a link: os.symlink(linkto, dst); FileExistsError is caught
copy_symlink ==
    /\ pc = "symlink"
    /\ act' = "copy_symlink"
    /\ IF lexists(fs, overwrite_dst) THEN overwrite_goes(fs, "unlink_dst")
       ELSE \/ overwrite_goes([fs EXCEPT ![overwrite_dst] = fs[overwrite_src]], "remove")
            \/ overwrite_raises(fs, "symlink")
    /\ overwrite_frame

\* _copy, src a link, dst exists: os.unlink(dst)
copy_unlink_dst ==
    /\ pc = "unlink_dst"
    /\ act' = "copy_unlink_dst"
    /\ \/ overwrite_goes([fs EXCEPT ![overwrite_dst] = NoFile], "symlink_again")
       \/ overwrite_raises(fs, "unlink")
    /\ overwrite_frame

\* _copy, src a link, dst removed: os.symlink(linkto, dst) again
copy_symlink_again ==
    /\ pc = "symlink_again"
    /\ act' = "copy_symlink_again"
    /\ \/ overwrite_goes([fs EXCEPT ![overwrite_dst] = fs[overwrite_src]], "remove")
       \/ overwrite_raises(fs, "symlink")
    /\ overwrite_frame

\* _copy, src a regular file: shutil.copy2 opens dst for writing, through
\* dst when dst is a link
copy2_open ==
    /\ pc = "copy2_open"
    /\ act' = "copy2_open"
    /\ \/ overwrite_goes([fs EXCEPT ![overwrite_dst] = Truncated(fs, overwrite_dst)], "copy2_write")
       \/ overwrite_raises(fs, "open")
    /\ overwrite_frame

\* shutil.copy2 writes the bytes of src to dst; a failed write leaves dst
\* truncated
copy2_write ==
    /\ pc = "copy2_write"
    /\ act' = "copy2_write"
    /\ \/ overwrite_goes([fs EXCEPT ![overwrite_dst].data = fs[overwrite_src].data], "copy2_stat")
       \/ overwrite_raises(fs, "write")
    /\ overwrite_frame

\* shutil.copy2 copies the stat of src to dst
copy2_stat ==
    /\ pc = "copy2_stat"
    /\ act' = "copy2_stat"
    /\ \/ overwrite_goes([fs EXCEPT ![overwrite_dst].sig = fs[overwrite_src].sig], "remove")
       \/ overwrite_raises(fs, "copystat")
    /\ overwrite_frame

\* RpmConf._overwrite after _copy returned: self._remove(src)
overwrite_remove ==
    /\ pc = "remove"
    /\ act' = "overwrite_remove"
    /\ \/ overwrite_goes([fs EXCEPT ![overwrite_src] = NoFile], "done")
       \/ overwrite_raises(fs, "unlink")
    /\ overwrite_frame

NextOverwrite ==
    \/ overwrite_call
    \/ copy_symlink
    \/ copy_unlink_dst
    \/ copy_symlink_again
    \/ copy2_open
    \/ copy2_write
    \/ copy2_stat
    \/ overwrite_remove

SpecOverwrite == InitOverwrite /\ [][NextOverwrite]_vars

\* ---- the properties ----

Range(sq) == {sq[i] : i \in 1..Len(sq)}

\* the two paths of the pair whose resolution began last
PairConf == conf_path(pair[1])

PairOther == other_path(pair[1], pair[2])

\* both files exist and hold the same bytes
ByteIdentical(f, p1, p2) ==
    f[p1].kind # "none" /\ f[p2].kind # "none" /\ f[p1].data = f[p2].data

\* filesystem g is f but for the variant of the pair, which is gone
VariantRemoved(f, g) == g = [f EXCEPT ![PairOther] = NoFile]

\* filesystem g is f but for the variant of the pair, which is gone, and the
\* base, which holds the bytes and the stat of that variant
VariantAdopted(f, g) ==
    /\ g[PairOther] = NoFile
    /\ g[PairConf].kind # "none"
    /\ g[PairConf].data = f[PairOther].data
    /\ g[PairConf].sig = f[PairOther].sig
    /\ \A p \in Paths \ {PairConf, PairOther} : g[p] = f[p]

\* the step taken last began the resolution of `pair`
Started == act \in {"handle_rpmnew", "handle_rpmsave"}

\* the step taken last read a line that ended the loop, and the resolution
\* returned to the walk
ChoiceEnded == act = "prompt" /\ pc = "walk"

\* C1 as stated: a pair whose two files are byte-identical when its
\* resolution starts, under either template, ends with the variant removed
\* and no prompt shown.
C1_IdenticalRemoved ==
    (Started /\ ByteIdentical(pre, PairConf, PairOther)) =>
        /\ pc = "walk"
        /\ prompts = 0
        /\ fs[PairOther] = NoFile

\* C1 amended: a byte-identical pair is settled without a prompt under
\* either template; outside dry run the variant is removed and the base is
\* left alone, in dry run no file changes.
C1_IdenticalSettled ==
    (Started /\ ByteIdentical(pre, PairConf, PairOther)) =>
        /\ pc = "walk"
        /\ prompts = 0
        /\ exc = NoExc
        /\ IF debug THEN fs = pre ELSE VariantRemoved(pre, fs)

C1_Witness ==
    /\ Started
    /\ ByteIdentical(pre, PairConf, PairOther)
    /\ pre[PairConf].sig # pre[PairOther].sig
    /\ ~debug
    /\ fs[PairOther] = NoFile

\* C2 as stated: after a terminal choice other than Skip (Y, I, N, O or the
\* empty line), whatever came before it in the loop, the variant is absent
\* and locating the variants of the base does not find it.
C2_VariantGone ==
    (ChoiceEnded /\ option \in {"Y", "I", "N", "O"}) =>
        /\ fs[PairOther] = NoFile
        /\ pair[2] \notin Locate(fs, pair[1])

\* C2 amended: the same outside dry run; in dry run the terminal choice
\* changes no file and the variant is still found.
C2_VariantGoneUnlessDryRun ==
    (ChoiceEnded /\ option \in {"Y", "I", "N", "O"}) =>
        IF debug THEN fs = pre /\ pair[2] \in Locate(fs, pair[1])
        ELSE fs[PairOther] = NoFile /\ pair[2] \notin Locate(fs, pair[1])

C2_Witness ==
    /\ ChoiceEnded
    /\ option \in {"N", "O"}
    /\ inp = ""
    /\ merged
    /\ prompts > 1
    /\ ~debug
    /\ pre[PairOther] # NoFile
    /\ pair[2] \notin Locate(fs, pair[1])

\* the resolution ended in Skip: S was typed, or the input ended
SkipEnded == ChoiceEnded /\ option = "S"

\* both files of the pair are as they were when the resolution started
PairAsStarted ==
    /\ lexists(fs, PairConf) /\ fs[PairConf] = start[PairConf]
    /\ lexists(fs, PairOther) /\ fs[PairOther] = start[PairOther]

\* C3 as stated: when the resolution ends in Skip, whatever D, M, Z or
\* invalid lines came before, base and variant exist and hold what they held
\* when the resolution started.
C3_SkipLeavesPair == SkipEnded => PairAsStarted

\* C3 amended: Skip itself changes no file, and when only D, Z or invalid
\* lines came before it (no M), base and variant exist and hold what they
\* held when the resolution started.
C3_SkipLeavesPairUnlessMerged ==
    SkipEnded => (fs = pre /\ (~merged => PairAsStarted))

C3_Witness ==
    /\ SkipEnded
    /\ inp = Eof
    /\ ~merged
    /\ prompts > 2
    /\ PairAsStarted

\* C4 as stated: in dry run the filesystem is, at every point of the run,
\* the one the run started with.
C4_DryRunFrame == debug => fs = fs0

\* the walk ended the resolution loop of the new-variant template
NewEnded == ChoiceEnded /\ pair[2] = 1

\* C5 as stated: in the new-variant template Y or I gives the base the
\* variant's content and removes the variant, N or O removes the variant and
\* leaves the base, and the empty line is N.
C5_NewTemplate ==
    NewEnded =>
        /\ option \in {"Y", "I"} =>
              fs[PairConf].data = pre[PairOther].data /\ fs[PairOther] = NoFile
        /\ option \in {"N", "O"} =>
              fs[PairConf] = pre[PairConf] /\ fs[PairOther] = NoFile
        /\ inp = "" => option = "N"

\* C5 amended: the same outside dry run (no other file changes); in dry run
\* none of these choices changes a file; the empty line is N in both.
C5_NewTemplateUnlessDryRun ==
    NewEnded =>
        /\ inp = "" => option = "N"
        /\ option \in {"Y", "I"} =>
              IF debug THEN fs = pre ELSE VariantAdopted(pre, fs)
        /\ option \in {"N", "O"} =>
              IF debug THEN fs = pre ELSE VariantRemoved(pre, fs)

C5_Witness ==
    /\ NewEnded
    /\ option = "I"
    /\ ~debug
    /\ pre[PairConf].data # pre[PairOther].data
    /\ fs[PairConf].data = pre[PairOther].data
    /\ fs[PairOther] = NoFile

\* the walk ended the resolution loop of the saved-variant template
SavedEnded == ChoiceEnded /\ pair[2] \in {2, 3}

\* C6 as stated: in the saved-variant template, for the saved and the
\* pristine-original suffix, Y or I removes the variant and leaves the base,
\* N or O gives the base the variant's content and removes the variant, and
\* the empty line is Y.
C6_SavedTemplate ==
    SavedEnded =>
        /\ option \in {"Y", "I"} =>
              fs[PairConf] = pre[PairConf] /\ fs[PairOther] = NoFile
        /\ option \in {"N", "O"} =>
              fs[PairConf].data = pre[PairOther].data /\ fs[PairOther] = NoFile
        /\ inp = "" => option = "Y"

\* C6 amended: the same outside dry run (no other file changes); in dry run
\* none of these choices changes a file; the empty line is Y in both.
C6_SavedTemplateUnlessDryRun ==
    SavedEnded =>
        /\ inp = "" => option = "Y"
        /\ option \in {"Y", "I"} =>
              IF debug THEN fs = pre ELSE VariantRemoved(pre, fs)
        /\ option \in {"N", "O"} =>
              IF debug THEN fs = pre ELSE VariantAdopted(pre, fs)

C6_Witness ==
    /\ SavedEnded
    /\ pair[2] = 3
    /\ option = "O"
    /\ ~debug
    /\ pre[PairConf].data # pre[PairOther].data
    /\ fs[PairConf].data = pre[PairOther].data
    /\ fs[PairOther] = NoFile

\* a removal, an overwrite or the comparison before them failed on a file
\* that is missing
FileFailure ==
    \/ exc.type = "FileNotFoundError" /\ exc.at \in {"filecmp", "final", "remove"}
    \/ exc.type = "SystemExit" /\ exc.at = "remove"

\* config files after the current one that have a variant to resolve
PendingConfigs ==
    {i \in (ci + 1)..Len(get_list_of_config) : Locate(fs, get_list_of_config[i]) # {}}

\* C7 as stated: a failure on one file is confined to its pair; the run is
\* never ended by it while other config files are pending.
C7_FailureConfined == FileFailure => PendingConfigs = {}

\* the step taken last is a step of the orphan scanner
ScannerStep == act \in {"clean_orphan", "clean_orphan_answer"}

\* the paths the step taken last deleted
Deleted == {p \in Paths : pre[p] # NoFile /\ fs[p] = NoFile}

\* what the orphan scanner may do to the filesystem: delete files whose base
\* no package owns, listed as candidates, once the answer is Y or empty
C8_Safety ==
    /\ \A p \in Paths : fs[p] # pre[p] => p \in Deleted
    /\ \A p \in Deleted :
          /\ p \in Range(files_delete)
          /\ owner[p[1]] = "none"
          /\ act = "clean_orphan_answer"
          /\ answer \in {"Y", ""}
    /\ \A i \in 1..Len(files_merge) : fs[files_merge[i].path] = pre[files_merge[i].path]
    /\ answer = "N" => \A p \in Range(files_delete) : lexists(fs, p)

\* C8 as stated: the scanner deletes only delete candidates and only on Y
\* or the empty line; on N all candidates stay; a file that needs merging is
\* never deleted; a confirmed deletion removes exactly the candidates.
C8_OrphanDeletion ==
    ScannerStep =>
        /\ C8_Safety
        /\ (act = "clean_orphan_answer" /\ answer \in {"Y", ""}) =>
              Deleted = Range(files_delete)

\* C8 amended: the same, a confirmed deletion removing exactly the
\* candidates outside dry run and nothing in dry run.
C8_OrphanDeletionUnlessDryRun ==
    ScannerStep =>
        /\ C8_Safety
        /\ (act = "clean_orphan_answer" /\ answer \in {"Y", ""}) =>
              Deleted = IF debug THEN {} ELSE Range(files_delete)

C8_Witness ==
    /\ act = "clean_orphan_answer"
    /\ inp = "y"
    /\ ~debug
    /\ files_merge # <<>>
    /\ Deleted # {}
    /\ Deleted = Range(files_delete)

\* the classification the scanner gave to a path
InMerge(p) == \E i \in 1..Len(files_merge) : files_merge[i].path = p

InDelete(p) == p \in Range(files_delete)

\* the variant files present under the scanned roots
TaggedFiles == {p \in Paths : lexists(fs, p) /\ p[2] \in Range(Suffixes)}

\* C9 as stated: after the walk of the scanner, every present file with one
\* of the three variant suffixes is a delete candidate or needs merging, and
\* not both.
C9_Partition ==
    act = "clean_orphan" => \A p \in TaggedFiles : InMerge(p) # InDelete(p)

\* C9 amended: that holds of the files with the new and the saved suffix; a
\* file with the pristine-original suffix is given neither classification.
C9_PartitionOfNewAndSaved ==
    act = "clean_orphan" =>
        \A p \in TaggedFiles :
            IF p[2] \in {"rpmnew", "rpmsave"}
            THEN /\ InMerge(p) # InDelete(p)
                 /\ InDelete(p) <=> owner[p[1]] = "none"
            ELSE ~InMerge(p) /\ ~InDelete(p)

C9_Witness ==
    /\ act = "clean_orphan"
    /\ \E p \in TaggedFiles : InMerge(p)
    /\ \E p \in TaggedFiles : InDelete(p)

\* the merge tool of the step taken last was started and came back
ToolCameBack ==
    /\ act = "prompt"
    /\ inp = "M"
    /\ exc.at # "tcflush"
    /\ ~(exc.type = "SystemExit" /\ exc.at \in {"tool not found", "no frontend"})

\* C10 as stated: after M, once the tool has run, whatever its exit status,
\* the loop is at the prompt of the same pair again and the run goes on.
C10_MergeReturnsToPrompt ==
    ToolCameBack => (pc = "prompt" /\ exc = NoExc)

\* the walk stands right after the pair whose resolution began last: at the
\* next suffix of the same config file, or at the next config file
WalkMovedOn ==
    /\ pc = "walk"
    /\ IF pair[2] < Len(Suffixes)
       THEN si = pair[2] + 1 /\ get_list_of_config[ci] = pair[1]
       ELSE si = 1 /\ ci > 1 /\ get_list_of_config[ci - 1] = pair[1]

\* what the explicit choice S leaves: the loop over, the option S, no file
\* changed, no exception, the walk at the next pair
SkippedOutcome ==
    /\ option = "S"
    /\ fs = pre
    /\ exc = NoExc
    /\ WalkMovedOn

\* the step taken last printed the prompt of a pair and found standard
\* input at its end
EndOfInputAtPrompt == act = "prompt" /\ inp = Eof

\* C11 as stated: the end of the input at the prompt of a pair acts as the
\* choice S does: the loop ends at once with the pair skipped, no file is
\* removed or overwritten and the walk goes on with the next pair.
C11_EndOfInputIsSkip == EndOfInputAtPrompt => SkippedOutcome

\* the step taken last asked for a line, at a prompt or at the question of
\* the orphan scanner, and found standard input at its end
InputExhausted == act \in {"prompt", "clean_orphan_answer"} /\ inp = Eof

\* C12 as stated: wherever the run reads a line, at the prompt of a pair or
\* at the question of the orphan scanner, the end of the input raises no
\* exception that ends the run and deletes no file.
C12_ExhaustionNeverFatal ==
    InputExhausted => (pc # "crash" /\ exc = NoExc /\ fs = pre)

\* the step taken last read the choice M at the prompt of a pair
MergeChosen == act = "prompt" /\ inp = "M" /\ exc.at # "tcflush"

\* no merge frontend is resolvable: none is selected and MERGE is not set
NoFrontend == frontend \in {"env", "None"} /\ ~mergeEnv

\* C13: M without a resolvable frontend ends the process with exit status
\* 2; M with a frontend whose executable is not found ends it with exit
\* status 4; the two differ from each other and from the status of a run
\* that returns, and the step changes no file.
C13_ExitStatuses ==
    MergeChosen =>
        /\ NoFrontend => (ExitStatus = 2 /\ fs = pre)
        /\ (~NoFrontend /\ ~tool.found) => (ExitStatus = 4 /\ fs = pre)
        /\ (NoFrontend \/ ~tool.found) => ExitStatus \notin {0, -1}

C13_Witness ==
    /\ MergeChosen
    /\ frontend = "meld"
    /\ ~tool.found
    /\ prompts > 1
    /\ ExitStatus = 4
    /\ fs = start

\* the diffs due for config file b: one for each variant that exists, the
\* new variant against the base and the base against the other two
DiffsDue(f, b) ==
    {IF s = 1 THEN <<conf_path(b), other_path(b, s)>>
              ELSE <<other_path(b, s), conf_path(b)>> : s \in Locate(f, b)}

\* C14 as stated: in diff mode the walk changes no file and prints no
\* prompt; for each config file it renders one diff for each of the three
\* suffixes whose variant exists, identical or not, and moves on to the
\* next config file without entering the resolution loop.
C14_DiffAudit ==
    act = "handle_package_diff" =>
        /\ fs = fs0
        /\ prompts = 0
        /\ pc = "walk"
        /\ ci > 1
        /\ shown = DiffsDue(pre, get_list_of_config[ci - 1])

\* one step of the interactive walk keeps the order of _handle_package
WalkInOrder ==
    /\ pc = "prompt" => pair = <<conf_file, si>>
    /\ act' \in {"handle_rpmnew", "handle_rpmsave"} =>
          /\ pc = "walk"
          /\ pair' = <<conf_file, si>>
          /\ access(fs, other_path(conf_file, si))
          /\ act' = "handle_rpmnew" <=> si = 1
    /\ act' = "handle_package" =>
          /\ pc = "walk"
          /\ ~access(fs, other_path(conf_file, si))
          /\ <<fs', pair', prompts'>> = <<fs, pair, 0>>
          /\ pc' = "walk"
    /\ <<ci', si'>> # <<ci, si>> =>
          /\ IF si < Len(Suffixes) THEN ci' = ci /\ si' = si + 1
                                   ELSE ci' = ci + 1 /\ si' = 1
          /\ pc' = "walk"
          /\ pc = "prompt" => option' \in Terminal

\* C15: in interactive mode the walk takes the suffixes of a config file in
\* the order new, saved, pristine-original; the resolution of a pair begins
\* only at its turn and when its variant exists, the walk stays at the pair
\* until a terminal choice ends its loop, and a suffix whose variant does
\* not exist at its turn is passed without a resolution.
C15_SuffixOrder == [][~diff => WalkInOrder]_vars

C15_Witness ==
    /\ ChoiceEnded
    /\ pair = <<1, 2>>
    /\ option \in {"Y", "I"}
    /\ lexists(start, other_path(1, 1))
    /\ si = 3
    /\ exc = NoExc

\* the step taken last called _remove or _overwrite on the variant of the
\* pair: for an identical pair, in the cleanup of a kdiff3 merge that
\* exited with 0, or in the statements after the loop
VariantRemovalCalled ==
    \/ Started /\ pc # "prompt" /\ exc.at # "filecmp"
    \/ MergeChosen /\ frontend = "kdiff3" /\ tool.found /\ tool.rc = 0
    \/ act = "prompt" /\ option \in {"Y", "I", "N", "O"} /\ exc.at \notin {"ls", "tcflush"}

\* C16: within the resolution of one pair, every step that removes the
\* variant (the cleanup of a merge, keeping the base, adopting the variant)
\* finds the variant present and as it was when the resolution started: no
\* earlier step of the resolution has removed it, and no removal is tried
\* on a variant that is absent.
C16_RemovedAtMostOnce ==
    [][VariantRemovalCalled' =>
          /\ lexists(fs, other_path(pair'[1], pair'[2]))
          /\ fs[other_path(pair'[1], pair'[2])] = start'[other_path(pair'[1], pair'[2])]]_vars

C16_Witness ==
    /\ act = "prompt"
    /\ exc = Raised("CalledProcessError", "ls")
    /\ frontend = "kdiff3"
    /\ merged
    /\ ~debug
    /\ lexists(start, PairOther)
    /\ ~lexists(fs, PairOther)

\* the step taken last chose M with kdiff3 and the tool was started
Kdiff3Ran == MergeChosen /\ frontend = "kdiff3" /\ tool.found

\* C17 as stated: with kdiff3, a merge whose tool exits with 0 leaves the
\* variant and the backup conf_file.orig absent and goes back to the
\* prompt; a merge whose tool exits otherwise removes neither file and goes
\* back to the prompt as well.
C17_ThreeWayMerge ==
    Kdiff3Ran =>
        /\ pc = "prompt"
        /\ exc = NoExc
        /\ tool.rc = 0 =>
              /\ ~lexists(fs, PairOther)
              /\ ~lexists(fs, orig_path(pair[1]))
        /\ tool.rc # 0 =>
              /\ fs[PairOther] = pre[PairOther]
              /\ fs[orig_path(pair[1])] = tool_run(pre, pair[1], tool.save, tool.backup)[orig_path(pair[1])]

\* both files of the pair existed when its resolution began, with
\* different bytes
ContentsDiffer ==
    /\ lexists(pre, PairConf)
    /\ lexists(pre, PairOther)
    /\ pre[PairConf].data # pre[PairOther].data

\* C18 as stated: a pair whose contents differ, the same size and
\* modification time or not, reaches the prompt with no file changed;
\* only an identical variant is removed without a prompt.
C18_DifferingPairPrompts ==
    (Started /\ ContentsDiffer) => (pc = "prompt" /\ fs = pre)

\* C19 as stated: the process ends with exit status 4 only when the merge
\* executable was not found; a tool that was started and came back never
\* leads to it, whatever files it left.
C19_Exit4OnlyToolNotFound ==
    ExitStatus = 4 => (MergeChosen /\ ~tool.found)

\* path p holds what the variant held when _overwrite was called: the same
\* bytes, and for a variant that was a symbolic link the same link
HoldsVariant(p) ==
    /\ lexists(fs, p)
    /\ fs[p].data = fs0[PairOther].data
    /\ islink(fs0, PairOther) => fs[p] = fs0[PairOther]

\* C20: at every step of _overwrite(src, dst), the steps at which a call
\* of _copy failed included, what the variant src held at the start is held
\* by src or by dst; src is gone only when dst holds it (as the same
\* symbolic link when src was one).
C20_ContentKept ==
    /\ HoldsVariant(PairOther) \/ HoldsVariant(PairConf)
    /\ ~lexists(fs, PairOther) => HoldsVariant(PairConf)
    /\ (pc = "done" /\ ~debug) => fs = overwrite(fs0, PairOther, PairConf).fs

C20_Witness ==
    /\ pc = "crash"
    /\ exc = Raised("OSError", "symlink")
    /\ islink(fs0, PairOther)
    /\ lexists(fs0, PairConf)
    /\ ~lexists(fs, PairConf)
    /\ fs[PairOther] = fs0[PairOther]

====
